---- MODULE Spec2Model ----
(***************************************************************************)
(* Othello engine of lawesson/negamax-othello: the list-implemented board  *)
(* (src/game/board.py), the value types and the game driver                *)
(* (src/game/api.py) and the negamax player (src/game/ai.py).              *)
(*                                                                         *)
(* Python objects live in a small heap: `rows` holds the BoardRow objects  *)
(* and `boards` the ListImplementedBoard objects, whose _tiles field is a  *)
(* list of references to rows.  Optional values are encoded as sequences:  *)
(* <<>> is None and <<v>> is the value v; an optional color or tile is the *)
(* string "None".                                                          *)
(*                                                                         *)
(* The front end (src/ui/tkgui.py) runs the game on a thread of its own;   *)
(* game_thread is the place of that thread: "running" in Game.step,        *)
(* "waiting" in clicked.wait() of TkPlayer.next_move, "notified" once a    *)
(* notify() has woken it and it has yet to take the lock again, "asked"    *)
(* once TkGame.step has found _running set and before next_move takes the  *)
(* lock, "left" once Game.run is left.  front_end is what the view has     *)
(* done with the game: "playing" while it is the game of the TkGui,        *)
(* "replaced" once _reset has stopped it and made a new player and game,   *)
(* "cleanup" between the two calls of cleanup, "closed" after them.        *)
(***************************************************************************)
EXTENDS Integers, Sequences, FiniteSets, TLC

VARIABLES rows, boards, game_board, last_move, players, last_score,
          my_move, board_for_my_turn, game_thread,
          running, quit_requested, front_end

\* the fields of the TkPlayer and the place of the game thread in its next_move
tk_vars == <<my_move, board_for_my_turn, game_thread, running, quit_requested, front_end>>

\* TkGame._running, TkPlayer.quit_requested and what the view has done
stop_vars == <<running, quit_requested, front_end>>

vars == <<rows, boards, game_board, last_move, players, last_score,
          my_move, board_for_my_turn, game_thread, running, quit_requested, front_end>>

-----------------------------------------------------------------------------
(* Bounds of the model *)

\* players of kind "pick" choose valid_moves()[k % len] for k in 0..MaxPick
MaxPick == 2
\* search depths of the NegaMaxPlayer instances
MaxDepth == 2
\* number of board objects the heap retains before a slot is reused
HeapBoards == 2
\* the negative search depths tried are -MaxBelowZero .. -1
MaxBelowZero == 2

-----------------------------------------------------------------------------
(* Value types: src/game/api.py *)

None == "None"

Color_BLACK == "BLACK"
Color_WHITE == "WHITE"
Color == {Color_BLACK, Color_WHITE}

Color_other(c) == IF c = Color_WHITE THEN Color_BLACK ELSE Color_WHITE

Tile_EMPTY == "-"
Tile_BLACK == "X"
Tile_WHITE == "O"
Tile_TIP == "."
Tile == {Tile_EMPTY, Tile_BLACK, Tile_WHITE, Tile_TIP}

Tile_color(t) ==
    IF t = Tile_BLACK THEN Color_BLACK
    ELSE IF t = Tile_WHITE THEN Color_WHITE
    ELSE None

Tile_for_color(c) == IF c = Color_BLACK THEN Tile_BLACK ELSE Tile_WHITE

Tile_other(t) ==
    IF Tile_color(t) = None THEN t
    ELSE IF t = Tile_WHITE THEN Tile_BLACK ELSE Tile_WHITE

Move(c, x, y) == [color |-> c, x |-> x, y |-> y]

is_skip(m) == m.x < 0

create_skip(c) == Move(c, -1, -1)

Score(b, w, n) == [black_stones |-> b, white_stones |-> w, next_to_move |-> n]

winning_color(s) ==
    IF s.black_stones = s.white_stones THEN None
    ELSE IF s.black_stones > s.white_stones THEN Color_BLACK ELSE Color_WHITE

-----------------------------------------------------------------------------
(* Board geometry and grids: src/game/board.py *)

\* side of the board: range(8) in BoardRow.__init__ and ListImplementedBoard.__init__
Size == 8
\* last index of a row or column: the literal 7 of get_tile and _find_neighbour_tiles
Last == 7
\* _valid_moves_for seeds from the empty cells once _empty_count < 50
SeedThreshold == 50
\* the _empty_count that clear() sets
OpeningEmpty == 60

Idx == 0 .. (Size - 1)

\* BoardRow(): a row of eight empty tiles
BoardRow_new == [y \in Idx |-> Tile_EMPTY]

\* a grid is the value of the 8 rows of a board, g[x][y]
EmptyGrid == [x \in Idx |-> BoardRow_new]

\* cells in the order enumerate(self._tiles) / enumerate(row) visits them
AllCells == [i \in 1 .. (Size * Size) |-> <<(i - 1) \div Size, (i - 1) % Size>>]

get_tile(g, x, y) ==
    IF x < 0 \/ x > Last \/ y < 0 \/ y > Last THEN None ELSE g[x][y]

\* (dx, dy) in the order _find_neighbour_tiles tries them
NeighbourOffsets ==
    << <<-1, -1>>, <<-1, 0>>, <<-1, 1>>,
       <<0, -1>>,             <<0, 1>>,
       <<1, -1>>,  <<1, 0>>,  <<1, 1>> >>

_find_tiles(g, tile) == SelectSeq(AllCells, LAMBDA c : g[c[1]][c[2]] = tile)

_find_neighbour_tiles(g, x, y, tile) ==
    SelectSeq([i \in 1 .. Len(NeighbourOffsets) |->
                  <<x + NeighbourOffsets[i][1], y + NeighbourOffsets[i][2]>>],
              LAMBDA p : /\ 0 <= p[1] /\ p[1] <= Last
                         /\ 0 <= p[2] /\ p[2] <= Last
                         /\ g[p[1]][p[2]] = tile)

\* the while loops of _valid_moves_for: step from (x, y) by (dx, dy) while the
\* cell holds `other`; the cell that stops the walk
RECURSIVE ray_end(_, _, _, _, _, _)
ray_end(g, x, y, dx, dy, other) ==
    IF get_tile(g, x, y) = other
    THEN ray_end(g, x + dx, y + dy, dx, dy, other)
    ELSE <<x, y>>

\* walk_end without the while loop: the walk stops on the cell behind the
\* neighbour, so a run of more than one stone is never crossed
walk_end_one_step(g, origin, nb, other) ==
    <<2 * nb[1] - origin[1], 2 * nb[2] - origin[2]>>

\* the cell where the walk from origin over the neighbour nb stops
walk_end(g, origin, nb, other) ==
    ray_end(g, 2 * nb[1] - origin[1], 2 * nb[2] - origin[2],
            nb[1] - origin[1], nb[2] - origin[2], other)

\* the ends of the walks from origin over the neighbours nbs that stop on `stop`
origin_hits(g, origin, nbs, other, stop) ==
    SelectSeq([i \in 1 .. Len(nbs) |-> walk_end(g, origin, nbs[i], other)],
              LAMBDA e : get_tile(g, e[1], e[2]) = stop)

\* what the inner loop of _valid_moves_for appends for one origin: the origin
\* once (append, then break) if add_start, else the end of every walk that hit
origin_moves(color, origin, add_start, hits) ==
    IF add_start
    THEN IF hits = <<>> THEN <<>> ELSE <<Move(color, origin[1], origin[2])>>
    ELSE [i \in 1 .. Len(hits) |-> Move(color, hits[i][1], hits[i][2])]

\* the moves one origin contributes: the body of the outer loop of _valid_moves_for
moves_from_origin(g, tile, origin, stop, add_start) ==
    origin_moves(Tile_color(tile), origin, add_start,
                 origin_hits(g, origin,
                             _find_neighbour_tiles(g, origin[1], origin[2], Tile_other(tile)),
                             Tile_other(tile), stop))

\* the outer loop of _valid_moves_for over the cells AllCells[lo .. hi], the
\* origins being those that hold `start`.  The loop is split in halves (the
\* moves of the first half, then those of the second) to keep the evaluation
\* shallow; the sequence is the one the loop builds cell by cell.
RECURSIVE cells_moves(_, _, _, _, _, _, _)
cells_moves(g, tile, lo, hi, start, stop, add_start) ==
    IF lo = hi
    THEN IF g[AllCells[lo][1]][AllCells[lo][2]] = start
         THEN moves_from_origin(g, tile, AllCells[lo], stop, add_start)
         ELSE <<>>
    ELSE cells_moves(g, tile, lo, (lo + hi) \div 2, start, stop, add_start)
         \o cells_moves(g, tile, (lo + hi) \div 2 + 1, hi, start, stop, add_start)

\* _valid_moves_for with the seeding strategy fixed by add_start
valid_moves_seeded(g, tile, add_start) ==
    cells_moves(g, tile, 1, Len(AllCells),
                IF add_start THEN Tile_EMPTY ELSE tile,
                IF add_start THEN tile ELSE Tile_EMPTY,
                add_start)

\* _valid_moves_for that seeds from the empty cells while more than
\* SeedThreshold cells are empty, and from the stones afterwards
_valid_moves_for_early_empty(g, empty_count, tile) ==
    IF empty_count > SeedThreshold
    THEN valid_moves_seeded(g, tile, TRUE)
    ELSE valid_moves_seeded(g, tile, FALSE)

_valid_moves_for(g, empty_count, tile) ==
    IF empty_count < SeedThreshold
    THEN valid_moves_seeded(g, tile, TRUE)
    ELSE valid_moves_seeded(g, tile, FALSE)

\* a board value: the grid, _next_to_move and _empty_count of a board object
BoardValue(g, n, e) == [grid |-> g, next_to_move |-> n, empty_count |-> e]

\* moves_or_skip that does not ask whether the opponent has a move
moves_or_skip_unasked(b, tile, moves) ==
    IF moves # <<>> THEN moves ELSE <<create_skip(Tile_color(tile))>>

\* the end of valid_moves, given the moves of the color to move
moves_or_skip(b, tile, moves) ==
    IF moves # <<>> THEN moves
    ELSE IF _valid_moves_for(b.grid, b.empty_count, Tile_other(tile)) # <<>>
         THEN <<create_skip(Tile_color(tile))>>
         ELSE <<>>

valid_moves(b) ==
    moves_or_skip(b, Tile_for_color(b.next_to_move),
                  _valid_moves_for(b.grid, b.empty_count, Tile_for_color(b.next_to_move)))

\* score: the counts of the black and white tiles with _next_to_move
compute_score(g, n) ==
    Score(Len(_find_tiles(g, Tile_BLACK)), Len(_find_tiles(g, Tile_WHITE)), n)

\* the inner while loop of _apply_destructive: the run of `other` cells from
\* (x, y) on is appended to path; ending_tile is the tile that stops it
RECURSIVE collect_path(_, _, _, _, _, _, _)
collect_path(g, x, y, dx, dy, other, path) ==
    IF get_tile(g, x, y) = other
    THEN collect_path(g, x + dx, y + dy, dx, dy, other, Append(path, <<x, y>>))
    ELSE [path |-> path, ending_tile |-> get_tile(g, x, y)]

\* for item in path: self[item[0]][item[1]] = tile, the grid after the first
\* k items of the path have been set
RECURSIVE set_path(_, _, _, _)
set_path(g, path, k, tile) ==
    IF k = 0 THEN g
    ELSE [set_path(g, path, k - 1, tile) EXCEPT ![path[k][1]][path[k][2]] = tile]

\* flip_run without the test of ending_tile: every run is flipped
flip_run_always(g, tile, run) == set_path(g, run.path, Len(run.path), tile)

\* if tile == ending_tile: the path is flipped
flip_run(g, tile, run) ==
    IF tile = run.ending_tile THEN set_path(g, run.path, Len(run.path), tile) ELSE g

\* flip_direction that flips nothing
flip_direction_none(g, x, y, tile, dx, dy) == g

\* the body of the flip loop of _apply_destructive for the neighbour at (dx, dy),
\* which the generator yields if it holds the other tile
flip_direction(g, x, y, tile, dx, dy) ==
    IF get_tile(g, x + dx, y + dy) # Tile_other(tile) THEN g
    ELSE flip_run(g, tile,
                  collect_path(g, x + 2 * dx, y + 2 * dy, dx, dy, Tile_other(tile),
                               << <<x + dx, y + dy>> >>))

\* the flip loop of _apply_destructive over the offsets lo .. hi of the
\* neighbour generator, which reads the grid as the earlier iterations left
\* it: the first half of the offsets is handled and gives the grid `first`,
\* then the second half is handled on `first`
RECURSIVE flip_range(_, _, _, _, _, _)
flip_range(g, x, y, tile, lo, hi) ==
    IF lo = hi
    THEN flip_direction(g, x, y, tile, NeighbourOffsets[lo][1], NeighbourOffsets[lo][2])
    ELSE CHOOSE after \in {flip_range(first, x, y, tile, (lo + hi) \div 2 + 1, hi) :
                              first \in {flip_range(g, x, y, tile, lo, (lo + hi) \div 2)}} :
             TRUE

\* the grid _apply_destructive leaves for a non-skip move: the stone placed,
\* then the runs flipped
placed_and_flipped(g, move) ==
    flip_range([g EXCEPT ![move.x][move.y] = Tile_for_color(move.color)],
               move.x, move.y, Tile_for_color(move.color), 1, Len(NeighbourOffsets))

\* end_if_blocked without the test: _next_to_move stays the opponent
end_if_blocked_never(moved) == moved

\* if not self.valid_moves(): self._next_to_move = None
end_if_blocked(moved) ==
    IF valid_moves(moved) = <<>>
    THEN BoardValue(moved.grid, None, moved.empty_count)
    ELSE moved

\* self[move.x][move.y] = tile raises IndexError for an index outside -8 .. 7;
\* a move with x < 0 is a skip and indexes nothing
apply_raises(move) ==
    ~is_skip(move) /\ (move.x > Last \/ move.y > Last \/ move.y < -Size)

\* _apply_destructive that leaves the turn with the color that skips
apply_destructive_value_skip_keeps_turn(b, move) ==
    IF is_skip(move)
    THEN BoardValue(b.grid, move.color, b.empty_count)
    ELSE end_if_blocked(BoardValue(placed_and_flipped(b.grid, move),
                                   Color_other(move.color), b.empty_count - 1))

\* _apply_destructive without self._empty_count -= 1
apply_destructive_value_count_kept(b, move) ==
    IF is_skip(move)
    THEN BoardValue(b.grid, Color_other(move.color), b.empty_count)
    ELSE end_if_blocked(BoardValue(placed_and_flipped(b.grid, move),
                                   Color_other(move.color), b.empty_count))

\* _apply_destructive on a board value
apply_destructive_value(b, move) ==
    IF is_skip(move)
    THEN BoardValue(b.grid, Color_other(move.color), b.empty_count)
    ELSE end_if_blocked(BoardValue(placed_and_flipped(b.grid, move),
                                   Color_other(move.color), b.empty_count - 1))

\* apply on a board value: the value of the board that apply returns
apply_value(b, move) == apply_destructive_value(b, move)

finished(b) == b.next_to_move = None

-----------------------------------------------------------------------------
(* Board objects in the heap: src/game/board.py *)

BoardId == 0 .. (HeapBoards - 1)

\* the row objects a board constructed in heap slot `slot` allocates
fresh_rows(slot) == [x \in Idx |-> slot * Size + x]

Heap(r, b) == [rows |-> r, boards |-> b]

BoardObject(t, n, s, e) ==
    [tiles |-> t, next_to_move |-> n, score |-> s, empty_count |-> e]

\* the tiles of board object b, read through its row references (@@ <<>>
\* leaves the function as it is: it is computed once, not at every use)
grid_of(h, b) == [x \in Idx |-> h.rows[h.boards[b].tiles[x]]] @@ <<>>

value_of(h, b) ==
    BoardValue(grid_of(h, b), h.boards[b].next_to_move, h.boards[b].empty_count)

\* the rows of h with the rows that `tiles` refers to overwritten by the rows
\* of grid g
write_rows(h, tiles, g) ==
    [r \in {tiles[x] : x \in Idx} |-> g[CHOOSE x \in Idx : tiles[x] = r]] @@ h.rows

\* the boards of h with board object b put in or replaced
put_board(h, b, obj) == (b :> obj) @@ h.boards

\* ListImplementedBoard(): eight new empty rows, black to move, 64 empty cells
ListImplementedBoard_new(h, slot) ==
    Heap(write_rows(h, fresh_rows(slot), EmptyGrid),
         put_board(h, slot, BoardObject(fresh_rows(slot), Color_BLACK, <<>>, 64)))

\* clear with the colors of the centre stones exchanged
clear_exchanged(h, b) ==
    LET g == grid_of(h, b)
        cleared == [g EXCEPT ![3][3] = Tile_BLACK, ![4][4] = Tile_BLACK,
                             ![3][4] = Tile_WHITE, ![4][3] = Tile_WHITE]
    IN  Heap(write_rows(h, h.boards[b].tiles, cleared),
             put_board(h, b, [h.boards[b] EXCEPT !.empty_count = OpeningEmpty]))

\* clear(): the four centre stones are written and _empty_count is set
clear(h, b) ==
    LET g == grid_of(h, b)
        cleared == [g EXCEPT ![3][3] = Tile_WHITE, ![4][4] = Tile_WHITE,
                             ![3][4] = Tile_BLACK, ![4][3] = Tile_BLACK]
    IN  Heap(write_rows(h, h.boards[b].tiles, cleared),
             put_board(h, b, [h.boards[b] EXCEPT !.empty_count = OpeningEmpty]))

\* the score property: the cached value if there is one, else computed and cached
score(h, b) ==
    IF h.boards[b].score # <<>> THEN h.boards[b].score[1]
    ELSE compute_score(grid_of(h, b), h.boards[b].next_to_move)

\* the heap after the score property of b was read: _score holds the score
score_cached(h, b) ==
    Heap(h.rows, put_board(h, b, [h.boards[b] EXCEPT !.score = <<score(h, b)>>]))

\* _clone that copies the list of rows but not the rows: the tiles of the new
\* board refer to the row objects of b
_clone_sharing_rows(h, b, slot) ==
    Heap(h.rows,
         put_board(h, slot, BoardObject(h.boards[b].tiles, h.boards[b].next_to_move,
                                        <<>>, h.boards[b].empty_count)))

\* _clone(): a board in slot `slot` on new rows that copy the rows of b
_clone(h, b, slot) ==
    Heap(write_rows(h, fresh_rows(slot), grid_of(h, b)),
         put_board(h, slot, BoardObject(fresh_rows(slot), h.boards[b].next_to_move,
                                        <<>>, h.boards[b].empty_count)))

\* _apply_destructive(): board b is changed in place through its row references
_apply_destructive(h, b, move) ==
    LET after == apply_destructive_value(value_of(h, b), move)
    IN  Heap(write_rows(h, h.boards[b].tiles, after.grid),
             put_board(h, b, BoardObject(h.boards[b].tiles, after.next_to_move,
                                         IF is_skip(move) THEN h.boards[b].score ELSE <<>>,
                                         after.empty_count)))

\* apply(): the clone of b is made in slot `slot`, changed and returned
apply(h, b, move, slot) == _apply_destructive(_clone(h, b, slot), slot, move)

-----------------------------------------------------------------------------
(* The negamax player: src/game/ai.py *)

SCORE_MATRIX ==
    << <<20,  5,  5,  5>>,
       << 5, -2, -1, -1>>,
       << 5, -1,  0,  0>>,
       << 5, -1,  0,  0>> >>

Reverse(s) == [i \in 1 .. Len(s) |-> s[Len(s) + 1 - i]]

\* NegaMaxPlayer.__init__: the corner block mirrored to the right, then downwards
top_half_matrix == [i \in 1 .. Len(SCORE_MATRIX) |->
                       SCORE_MATRIX[i] \o Reverse(SCORE_MATRIX[i])]

_matrix == top_half_matrix \o Reverse(top_half_matrix)

\* self._matrix[x][y] with Python's indexing: a negative index counts from the end
matrix_at(x, y) == _matrix[(x % Size) + 1][(y % Size) + 1]

\* neg: None stays None
neg(i) == IF i = <<>> THEN <<>> ELSE <<-i[1]>>

NegamaxResult(sc, mv) == [score |-> sc, move |-> mv]

\* cell_score that leaves out the tiles of the opponent
cell_score_own_only(tile, my_tile, weight) == IF tile = my_tile THEN weight ELSE 0

\* what one cell adds to the sum of _evaluate_heuristic
cell_score(tile, my_tile, weight) ==
    IF tile = my_tile THEN weight
    ELSE IF tile = Tile_other(my_tile) THEN -weight
    ELSE 0

\* the loops of _evaluate_heuristic over the cells AllCells[lo .. hi]: the sum
\* of the first half plus the sum of the second half
RECURSIVE cells_score(_, _, _, _)
cells_score(g, my_tile, lo, hi) ==
    IF lo = hi
    THEN cell_score(g[AllCells[lo][1]][AllCells[lo][2]], my_tile,
                    matrix_at(AllCells[lo][1], AllCells[lo][2]))
    ELSE cells_score(g, my_tile, lo, (lo + hi) \div 2)
         + cells_score(g, my_tile, (lo + hi) \div 2 + 1, hi)

_evaluate_heuristic(b, color) ==
    cells_score(b.grid, Tile_for_color(color), 1, Len(AllCells))

\* 999 for the winner, -999 for the other color, 0 if there is no winner
terminal_score(winner, color) ==
    IF winner = None THEN 0
    ELSE IF color = winner THEN 999 ELSE -999

\* _evaluate without the test of board.finished
_evaluate_unfinished(b, color) == _evaluate_heuristic(b, color)

_evaluate(b, color) ==
    IF finished(b)
    THEN terminal_score(winning_color(compute_score(b.grid, b.next_to_move)), color)
    ELSE _evaluate_heuristic(b, color)

\* the place of moves[i] after list.sort(key=weight, reverse=True): behind the
\* moves of greater weight and the earlier moves of equal weight
sorted_place(moves, i) ==
    1 + Cardinality({j \in 1 .. Len(moves) :
            \/ matrix_at(moves[j].x, moves[j].y) > matrix_at(moves[i].x, moves[i].y)
            \/ /\ matrix_at(moves[j].x, moves[j].y) = matrix_at(moves[i].x, moves[i].y)
               /\ j < i})

\* moves_with_preference.sort(key=lambda t: t[0], reverse=True): descending
\* weight of the destination, moves of equal weight keep their order
sort_by_preference(moves) ==
    [p \in 1 .. Len(moves) |->
        moves[CHOOSE i \in 1 .. Len(moves) : sorted_place(moves, i) = p]] \o <<>>

\* the locals of the for loop of _negamax; done: the loop has hit its break
LoopState(value, best_move, alpha, done) ==
    [value |-> value, best_move |-> best_move, alpha |-> alpha, done |-> done]

\* the alpha of the loop after value was updated
raised_alpha(alpha, value) ==
    IF alpha = <<>> \/ value[1] > alpha[1] THEN value ELSE alpha

\* cutoff with the comparison turned round
cutoff_turned(alpha, beta) == beta # <<>> /\ alpha[1] <= beta[1]

\* the break of the for loop
cutoff(alpha, beta) == beta # <<>> /\ alpha[1] >= beta[1]

\* the locals once value, best_move are updated: alpha is raised, the break tested
loop_raise(value, best_move, alpha, beta) ==
    LoopState(value, best_move, raised_alpha(alpha, value),
              cutoff(raised_alpha(alpha, value), beta))

\* loop_update that also takes a move whose score equals the greatest so far
loop_update_keeps_last(st, move, item_score, beta) ==
    IF st.value = <<>> \/ item_score >= st.value[1]
    THEN loop_raise(<<item_score>>, <<move>>, st.alpha, beta)
    ELSE loop_raise(st.value, st.best_move, st.alpha, beta)

\* the body of the for loop for one move and its score
loop_update(st, move, item_score, beta) ==
    IF st.value = <<>> \/ item_score > st.value[1]
    THEN loop_raise(<<item_score>>, <<move>>, st.alpha, beta)
    ELSE loop_raise(st.value, st.best_move, st.alpha, beta)

\* return NegamaxResult(value, best_move)
loop_result(st) == NegamaxResult(st.value[1], st.best_move)

\* if depth == 0 or board.finished: the first base case of _negamax
base_case(b, depth) == depth = 0 \/ finished(b)

\* _negamax as one recursion over the position pc in the function.
\*   "entry": the first base case; the valid moves are computed
\*   "moves": the second base case; the moves are ordered and the loop is run
\*   "loop":  the for loop over moves[lo .. hi] from the locals st, giving the
\*            locals after it; a loop that has hit its break skips the moves
\*            left.  The loop is split in halves to keep the evaluation shallow:
\*            the second half runs from the locals the first half leaves.
RECURSIVE negamax_at(_, _, _, _, _, _, _, _, _)
negamax_at(pc, b, depth, beta, color, moves, lo, hi, st) ==
    CASE pc = "entry" ->
           IF base_case(b, depth)
           THEN NegamaxResult(_evaluate(b, color), <<>>)
           ELSE negamax_at("moves", b, depth, beta, color, valid_moves(b), 0, 0, st)
      [] pc = "moves" ->
           IF moves = <<>>
           THEN NegamaxResult(_evaluate(b, color), <<>>)
           ELSE loop_result(negamax_at("loop", b, depth, beta, color,
                                       sort_by_preference(moves), 1, Len(moves), st))
      [] pc = "loop" /\ st.done -> st
      [] pc = "loop" /\ ~st.done /\ lo < hi ->
           negamax_at("loop", b, depth, beta, color, moves, (lo + hi) \div 2 + 1, hi,
                      negamax_at("loop", b, depth, beta, color, moves,
                                 lo, (lo + hi) \div 2, st))
      [] pc = "loop" /\ ~st.done /\ lo = hi ->
           loop_update(st, moves[lo],
                       -(negamax_at("entry", apply_value(b, moves[lo]), depth - 1,
                                    neg(st.alpha), Color_other(color), <<>>, 0, 0,
                                    LoopState(<<>>, <<>>, neg(beta), FALSE)).score),
                       beta)

_negamax(b, depth, alpha, beta, color) ==
    negamax_at("entry", b, depth, beta, color, <<>>, 0, 0,
               LoopState(<<>>, <<>>, alpha, FALSE))

\* score_moves whose scores are those of the opponent, not negated
score_moves_not_negated(b, depth) ==
    LET moves == valid_moves(b)
    IN  [i \in 1 .. Len(moves) |->
            NegamaxResult(_negamax(apply_value(b, moves[i]), depth, <<>>, <<>>,
                                   Color_other(b.next_to_move)).score,
                          <<moves[i]>>)] \o <<>>

\* NegaMaxPlayer.score_moves of a player of depth `depth`: for each valid move
\* in turn the negated score of the search of the board after it
score_moves(b, depth) ==
    LET moves == valid_moves(b)
    IN  [i \in 1 .. Len(moves) |->
            NegamaxResult(-(_negamax(apply_value(b, moves[i]), depth, <<>>, <<>>,
                                     Color_other(b.next_to_move)).score),
                          <<moves[i]>>)] \o <<>>

\* NegaMaxPlayer.next_move: the result of the root search
NegaMax_search(b, depth) == _negamax(b, depth, <<>>, <<>>, b.next_to_move)

-----------------------------------------------------------------------------
(* Players and the game driver: src/game/api.py, src/ui/tkgui.py *)

\* AI.next_move: the first valid move
AI_next_move(b) == valid_moves(b)[1]

\* TkPlayer.next_move returns the click that last_click accepted, a member of
\* valid_moves(); the person clicking is taken to choose the k-th valid move,
\* counted cyclically
pick(moves, k) == moves[(k % Len(moves)) + 1]

Pick_next_move(b, k) == pick(valid_moves(b), k)

Player(kind, k, depth) == [kind |-> kind, k |-> k, depth |-> depth]

AIPlayer == Player("ai", 0, 0)
PickPlayer(k) == Player("pick", k, 0)
NegaMaxPlayer(depth) == Player("negamax", 0, depth)

Humans == {AIPlayer} \cup {PickPlayer(k) : k \in 1 .. MaxPick}
Engines == {NegaMaxPlayer(d) : d \in 1 .. MaxDepth}

\* the pairs of players of a game with a NegaMaxPlayer: it plays the base AI
EngineGames ==
    {[c \in Color |-> IF c = ec THEN e ELSE AIPlayer] : ec \in Color, e \in Engines}

\* the pairs of players of the games
Games == [Color -> Humans] \cup EngineGames

\* what next_move gives: the move and the player's _last_score afterwards
Answer(mv, sc) == [move |-> mv, last_score |-> sc]

\* NegaMaxPlayer.next_move: the score is recorded, the move returned
NegaMax_next_move(negamax) == Answer(negamax.move, <<negamax.score>>)

\* player.next_move(board); old_score is the player's _last_score
next_move(player, b, old_score) ==
    IF player.kind = "negamax" THEN NegaMax_next_move(NegaMax_search(b, player.depth))
    ELSE IF player.kind = "pick" THEN Answer(<<Pick_next_move(b, player.k)>>, old_score)
    ELSE Answer(<<AI_next_move(b)>>, old_score)

\* the slot the next board object is allocated in
next_slot(b) == (b + 1) % HeapBoards

\* Game.__init__: a board is constructed and cleared, the players are stored
GameInit(games) ==
    /\ LET h == clear(ListImplementedBoard_new(Heap(<<>>, <<>>), 0), 0)
       IN  rows = h.rows /\ boards = h.boards
    /\ game_board = 0
    /\ last_move = <<>>
    /\ players \in games
    /\ last_score = [c \in Color |-> <<>>]
    /\ my_move = <<>>
    /\ board_for_my_turn = <<>>
    /\ game_thread = "running"
    /\ running = TRUE
    /\ quit_requested = FALSE
    /\ front_end = "playing"

Init == GameInit(Games)

InitSearch == GameInit(EngineGames)

\* self._board = board.apply(self._last_move)
StepApply(color, answer) ==
    /\ answer.move # <<>>
    /\ rows' = apply(Heap(rows, boards), game_board, answer.move[1],
                     next_slot(game_board)).rows
    /\ boards' = apply(Heap(rows, boards), game_board, answer.move[1],
                       next_slot(game_board)).boards
    /\ game_board' = next_slot(game_board)
    /\ last_move' = answer.move
    /\ last_score' = [last_score EXCEPT ![color] = answer.last_score]
    /\ UNCHANGED players

\* the board value of Game._board
game_value == value_of(Heap(rows, boards), game_board)

\* the number of non-skip moves applied so far: clear() sets _empty_count to
\* OpeningEmpty and _apply_destructive takes one off for every non-skip move
NonSkipMoves == OpeningEmpty - boards[game_board].empty_count

\* Game.step: the player to move is asked for a move, and the move is applied
Step ==
    /\ ~finished(boards[game_board])
    /\ StepApply(boards[game_board].next_to_move,
                 next_move(players[boards[game_board].next_to_move], game_value,
                           last_score[boards[game_board].next_to_move]))
    /\ UNCHANGED tk_vars

\* the score property is read on Game._board (TkGui._update_view shows it)
ReadScore ==
    /\ boards' = score_cached(Heap(rows, boards), game_board).boards
    /\ UNCHANGED <<rows, game_board, last_move, players, last_score>>
    /\ UNCHANGED tk_vars

Next == Step \/ ReadScore

Spec == Init /\ [][Next]_vars

\* the games in which a NegaMaxPlayer plays, run by Game.run: nothing but steps
SpecSearch == InitSearch /\ [][Step]_vars

\* Game.run on its own thread: while self.step() takes step after step until a
\* step returns false, whatever the view does in between.  This is weak
\* fairness of Step, with the enabling condition of Step written out: a step
\* can be taken as long as the board is not finished.
RunIsScheduled == []<>finished(boards[game_board]) \/ []<><<Step>>_vars

SpecRun == Init /\ [][Next]_vars /\ RunIsScheduled

-----------------------------------------------------------------------------
(* The rules of Othello, stated on sets of cells.  These definitions are the *)
(* reference the properties compare the program with; they use none of the  *)
(* program's loops.                                                          *)

RefCells == Idx \X Idx

RefDirections == {d \in (-1 .. 1) \X (-1 .. 1) : d # <<0, 0>>}

\* the k-th cell from c in direction d
RefStep(c, d, k) == <<c[1] + k * d[1], c[2] + k * d[2]>>

\* what cell c holds; a cell off the board holds nothing
RefTile(g, c) == IF c[1] \in Idx /\ c[2] \in Idx THEN g[c[1]][c[2]] ELSE None

\* the lengths n >= 1 such that the n cells from c in direction d hold the
\* opponent of `tile` and the next cell holds `tile`: at most one length
RefRun(g, tile, c, d) ==
    IF RefTile(g, RefStep(c, d, 1)) # Tile_other(tile) THEN {}
    ELSE {n \in 1 .. Size :
            /\ \A k \in 1 .. n : RefTile(g, RefStep(c, d, k)) = Tile_other(tile)
            /\ RefTile(g, RefStep(c, d, n + 1)) = tile}

\* the empty cells from which at least one direction brackets opponent stones
RefLegal(g, tile) ==
    {c \in RefCells : /\ g[c[1]][c[2]] = Tile_EMPTY
                      /\ \E d \in RefDirections : RefRun(g, tile, c, d) # {}}

\* the cells a stone `tile` placed on c flips
RefFlips(g, tile, c) ==
    {RefStep(c, dk[1], dk[2]) :
        dk \in {e \in RefDirections \X (1 .. Size) :
                  \E n \in RefRun(g, tile, c, e[1]) : e[2] <= n}}

\* the grid after a stone `tile` was placed on c
RefApply(g, tile, c) ==
    LET flips == RefFlips(g, tile, c)
    IN  [x \in Idx |-> [y \in Idx |->
            IF <<x, y>> = c \/ <<x, y>> \in flips THEN tile ELSE g[x][y]]]

\* neither color has a legal move on g
RefTerminal(g) == RefLegal(g, Tile_BLACK) = {} /\ RefLegal(g, Tile_WHITE) = {}

\* the destination cells of a sequence of moves
Destinations(moves) == {<<moves[i].x, moves[i].y>> : i \in 1 .. Len(moves)}

\* the board values apply gives for the valid moves of b
Children(b) ==
    LET moves == valid_moves(b)
    IN  {apply_value(b, moves[i]) : i \in 1 .. Len(moves)}

\* negamax without bounds: every move is searched.  The moves are tried in the
\* order of _negamax and the first move of the greatest score is kept.
RECURSIVE RefNegamax(_, _, _)
RefNegamax(b, depth, color) ==
    IF depth = 0 \/ finished(b)
    THEN NegamaxResult(_evaluate(b, color), <<>>)
    ELSE LET moves == sort_by_preference(valid_moves(b))
             scores == [i \in 1 .. Len(moves) |->
                           -(RefNegamax(apply_value(b, moves[i]), depth - 1,
                                        Color_other(color)).score)] \o <<>>
             best == CHOOSE i \in 1 .. Len(moves) :
                         \A j \in 1 .. Len(moves) :
                             scores[i] > scores[j] \/ (scores[i] = scores[j] /\ i <= j)
         IN  IF moves = <<>>
             THEN NegamaxResult(_evaluate(b, color), <<>>)
             ELSE NegamaxResult(scores[best], <<moves[best]>>)

\* the colors a search of b is run for: the color to move
SearchColors(b) == IF finished(b) THEN Color ELSE {b.next_to_move}

\* b with move generation fixed to one seeding for every board apply gives
\* from it: _empty_count is put where the test of _valid_moves_for cannot turn
ForcedSeeding(b, add_start) ==
    BoardValue(b.grid, b.next_to_move, IF add_start THEN 0 ELSE SeedThreshold + Size * Size)

\* the number of cells of g that hold `tile`
RefCount(g, tile) == Cardinality({c \in RefCells : g[c[1]][c[2]] = tile})

\* the weight of a cell: that of the cell of the corner block it mirrors
RefWeight(c) ==
    SCORE_MATRIX[(IF c[1] > Last - c[1] THEN Last - c[1] ELSE c[1]) + 1]
                [(IF c[2] > Last - c[2] THEN Last - c[2] ELSE c[2]) + 1]

RefWeights == {RefWeight(c) : c \in RefCells}

\* the sum of the weights in W, each times the number of cells of that weight
\* that hold `tile`
RECURSIVE RefWeightSum(_, _, _)
RefWeightSum(g, tile, W) ==
    IF W = {} THEN 0
    ELSE LET w == CHOOSE v \in W : TRUE
         IN  w * Cardinality({c \in RefCells : g[c[1]][c[2]] = tile /\ RefWeight(c) = w})
             + RefWeightSum(g, tile, W \ {w})

\* the weights at the stones of color minus the weights at those of the opponent
RefHeuristic(g, color) ==
    RefWeightSum(g, Tile_for_color(color), RefWeights)
        - RefWeightSum(g, Tile_for_color(Color_other(color)), RefWeights)

\* 999, -999 or 0 by the numbers of stones
RefTerminalScore(g, color) ==
    IF RefCount(g, Tile_for_color(color)) > RefCount(g, Tile_for_color(Color_other(color)))
    THEN 999
    ELSE IF RefCount(g, Tile_for_color(color)) < RefCount(g, Tile_for_color(Color_other(color)))
    THEN -999
    ELSE 0

\* the heap of the state and the board object the last apply was called on
TheHeap == Heap(rows, boards)
Receiver == (game_board + HeapBoards - 1) % HeapBoards

-----------------------------------------------------------------------------
(* A game of the front end: src/ui/tkgui.py.  One player is a TkPlayer, whose *)
(* next_move waits on the game thread for a click that last_click, on the    *)
(* thread of the view, accepts.                                              *)

\* the first MaxRaceMoves moves of a game may be clicked twice
MaxRaceMoves == 2

\* the games of the front end: a TkPlayer (a player of kind "pick": the person
\* means to play the k-th valid move) against the base AI or a NegaMaxPlayer
TkGames ==
    {[c \in Color |-> IF c = hc THEN PickPlayer(k) ELSE o] :
        hc \in Color, k \in 1 .. MaxPick, o \in {AIPlayer} \cup Engines}

InitTk == GameInit(TkGames)

\* TkPlayer.color
TkColor == CHOOSE c \in Color : players[c].kind = "pick"

\* the turn on Game._board is that of the TkPlayer
TkToMove ==
    /\ ~finished(boards[game_board])
    /\ boards[game_board].next_to_move = TkColor

\* TkGame.step after next_move has returned: the move is applied, and
\* _on_change (TkGui._update_view) reads the score of the new board
TkStepApply(color, answer) ==
    LET applied == apply(TheHeap, game_board, answer.move[1], next_slot(game_board))
        viewed == score_cached(applied, next_slot(game_board))
    IN  /\ answer.move # <<>>
        /\ rows' = viewed.rows
        /\ boards' = viewed.boards
        /\ game_board' = next_slot(game_board)
        /\ last_move' = answer.move
        /\ last_score' = [last_score EXCEPT ![color] = answer.last_score]
        /\ UNCHANGED players

\* TkGame.step when the AI is to move: its next_move returns at once
TkGame_step ==
    /\ game_thread = "running"
    /\ running
    /\ ~finished(boards[game_board])
    /\ ~TkToMove
    /\ TkStepApply(boards[game_board].next_to_move,
                   next_move(players[boards[game_board].next_to_move], game_value,
                             last_score[boards[game_board].next_to_move]))
    /\ UNCHANGED tk_vars

\* TkGame.step when the TkPlayer is to move: _running was found set, and
\* next_move of the TkPlayer is called
TkGame_step_asks ==
    /\ game_thread = "running"
    /\ running
    /\ TkToMove
    /\ game_thread' = "asked"
    /\ UNCHANGED <<rows, boards, game_board, last_move, players, last_score,
                   my_move, board_for_my_turn>>
    /\ UNCHANGED stop_vars

\* TkPlayer.next_move from `with self.clicked` to clicked.wait(): the lock is
\* taken, the board stored, and the thread waits with the lock released
TkPlayer_next_move_waits ==
    /\ game_thread = "asked"
    /\ board_for_my_turn' = <<game_board>>
    /\ game_thread' = "waiting"
    /\ UNCHANGED <<rows, boards, game_board, last_move, players, last_score, my_move>>
    /\ UNCHANGED stop_vars

\* TkPlayer.next_move up to clicked.wait(): the board is stored and the thread
\* waits, the lock released
TkPlayer_next_move ==
    /\ game_thread = "running"
    /\ running
    /\ TkToMove
    /\ board_for_my_turn' = <<game_board>>
    /\ game_thread' = "waiting"
    /\ UNCHANGED <<rows, boards, game_board, last_move, players, last_score, my_move>>
    /\ UNCHANGED stop_vars

\* the move last_click makes of a click: the skip if the player must skip
click_move(color, x, y, moves) ==
    IF is_skip(moves[1]) THEN moves[1] ELSE Move(color, x, y)

\* click_accepted that takes every click
click_accepted_always(move, moves) == TRUE

\* if move in valid_moves
click_accepted(move, moves) == \E i \in 1 .. Len(moves) : moves[i] = move

\* clicked.notify(): a thread that waits is woken
notify(thread) == IF thread = "waiting" THEN "notified" ELSE thread

\* the cells of the valid moves the person may click: the k-th, and in the
\* first MaxRaceMoves moves of the game also the one after it
MeantCells(moves, k) ==
    {<<pick(moves, j).x, pick(moves, j).y>> :
        j \in IF NonSkipMoves < MaxRaceMoves THEN {k, k + 1} ELSE {k}}

\* the cells the person clicks: an occupied cell, the cell of the move stored
\* in my_move and, while the TkPlayer is asked, the cells of the moves meant
ClickCells ==
    {<<3, 3>>}
        \cup {<<my_move[i].x, my_move[i].y>> : i \in {j \in 1 .. Len(my_move) : ~is_skip(my_move[j])}}
        \cup (IF board_for_my_turn = <<>> THEN {}
              ELSE MeantCells(valid_moves(value_of(TheHeap, board_for_my_turn[1])),
                              players[TkColor].k) \cap RefCells)

\* TkPlayer.last_click(x, y) on the thread of the view, the lock held
last_click(x, y) ==
    IF board_for_my_turn = <<>>
    THEN UNCHANGED vars
    ELSE LET moves == valid_moves(value_of(TheHeap, board_for_my_turn[1]))
             move == click_move(TkColor, x, y, moves)
         IN  IF click_accepted(move, moves)
             THEN /\ my_move' = <<move>>
                  /\ game_thread' = notify(game_thread)
                  /\ UNCHANGED <<rows, boards, game_board, last_move, players,
                                 last_score, board_for_my_turn>>
                  /\ UNCHANGED stop_vars
             ELSE UNCHANGED vars

\* TkGui._on_mouse: a click on a cell, passed to the TkPlayer of the TkGui
Click ==
    /\ front_end = "playing"
    /\ \E c \in ClickCells : last_click(c[1], c[2])

\* clicked.wait() returns once the thread was notified and has the lock again
wait_returns(thread) == thread = "notified"

\* TkPlayer.next_move from the return of clicked.wait(): my_move is returned
\* (it is not reset), board_for_my_turn is reset, and TkGame.step goes on
TkPlayer_next_move_return ==
    /\ wait_returns(game_thread)
    /\ ~quit_requested
    /\ my_move # <<>>
    /\ board_for_my_turn' = <<>>
    /\ game_thread' = "running"
    /\ TkStepApply(TkColor, Answer(my_move, last_score[TkColor]))
    /\ UNCHANGED my_move
    /\ UNCHANGED stop_vars

\* clicked.wait() returns and quit_requested is set: InterruptedError is
\* raised, board_for_my_turn is reset and Game.run is left
TkPlayer_next_move_interrupted ==
    /\ wait_returns(game_thread)
    /\ quit_requested
    /\ board_for_my_turn' = <<>>
    /\ game_thread' = "left"
    /\ UNCHANGED <<rows, boards, game_board, last_move, players, last_score, my_move>>
    /\ UNCHANGED stop_vars

\* TkGame.step finds _running reset: InterruptedError is raised and Game.run
\* is left
TkGame_step_interrupted ==
    /\ game_thread = "running"
    /\ ~finished(boards[game_board])
    /\ ~running
    /\ game_thread' = "left"
    /\ UNCHANGED <<rows, boards, game_board, last_move, players, last_score,
                   my_move, board_for_my_turn>>
    /\ UNCHANGED stop_vars

\* Game.run: step() has returned False, the loop ends
Game_run_ends ==
    /\ game_thread = "running"
    /\ finished(boards[game_board])
    /\ game_thread' = "left"
    /\ UNCHANGED <<rows, boards, game_board, last_move, players, last_score,
                   my_move, board_for_my_turn>>
    /\ UNCHANGED stop_vars

\* TkGame.stop
TkGame_stop == running' = FALSE

\* TkGui._reset: the game is stopped, and a new TkPlayer and a new TkGame
\* take its place
TkGui_reset ==
    /\ front_end = "playing"
    /\ TkGame_stop
    /\ front_end' = "replaced"
    /\ UNCHANGED <<rows, boards, game_board, last_move, players, last_score,
                   my_move, board_for_my_turn, game_thread, quit_requested>>

\* TkGui.cleanup, its first call: self._game.stop()
TkGui_cleanup_game ==
    /\ front_end = "playing"
    /\ TkGame_stop
    /\ front_end' = "cleanup"
    /\ UNCHANGED <<rows, boards, game_board, last_move, players, last_score,
                   my_move, board_for_my_turn, game_thread, quit_requested>>

\* TkPlayer.stop, the lock held: quit_requested is set and clicked notified
TkPlayer_stop ==
    /\ quit_requested' = TRUE
    /\ game_thread' = notify(game_thread)

\* TkGui.cleanup, its second call: self._player.stop()
TkGui_cleanup_player ==
    /\ front_end = "cleanup"
    /\ TkPlayer_stop
    /\ front_end' = "closed"
    /\ UNCHANGED <<rows, boards, game_board, last_move, players, last_score,
                   my_move, board_for_my_turn, running>>

\* the steps of the thread of the game
GameThread ==
    \/ TkGame_step
    \/ TkGame_step_asks
    \/ TkPlayer_next_move_waits
    \/ TkPlayer_next_move_return
    \/ TkPlayer_next_move_interrupted
    \/ TkGame_step_interrupted
    \/ Game_run_ends

\* the handlers of the thread of the view
ViewThread == Click \/ TkGui_reset \/ TkGui_cleanup_game \/ TkGui_cleanup_player

NextStop == GameThread \/ ViewThread

\* the thread of the game is where one of its two steps that apply a move
\* can be taken: TkGame_step or TkPlayer_next_move_return
MoveCanBeApplied ==
    \/ game_thread = "running" /\ running /\ ~finished(boards[game_board]) /\ ~TkToMove
    \/ wait_returns(game_thread) /\ ~quit_requested /\ my_move # <<>>

\* the thread of the game is scheduled while it can take a step: weak
\* fairness of each of its steps (at any place of the thread at most one of
\* them can be taken).  For the two steps that apply a move the condition is
\* written with MoveCanBeApplied, the condition under which they can be taken.
GameThreadIsScheduled ==
    /\ WF_vars(TkGame_step_asks)
    /\ WF_vars(TkPlayer_next_move_waits)
    /\ WF_vars(TkPlayer_next_move_interrupted)
    /\ WF_vars(TkGame_step_interrupted)
    /\ WF_vars(Game_run_ends)
    /\ ([]<>~MoveCanBeApplied \/ []<><<TkGame_step \/ TkPlayer_next_move_return>>_vars)

\* cleanup runs to its end: its second call follows its first
CleanupIsCompleted == WF_vars(TkGui_cleanup_player)

\* a game of the front end that the view may stop at any time
SpecStop == InitTk /\ [][NextStop]_vars /\ GameThreadIsScheduled /\ CleanupIsCompleted

NextTk == TkGame_step \/ TkPlayer_next_move \/ Click \/ TkPlayer_next_move_return

SpecTk == InitTk /\ [][NextTk]_vars

-----------------------------------------------------------------------------
(* A caller of the Board interface of src/game/api.py: a board is           *)
(* constructed, and then clear(), the score property and apply() with a     *)
(* valid move are called in any order on the board the caller holds.        *)

\* apply() is called on boards with fewer than MaxApiStones stones
MaxApiStones == 7
\* apply() is called with one of the first MaxApiBranch valid moves
MaxApiBranch == 2

InitApi ==
    /\ LET h == ListImplementedBoard_new(Heap(<<>>, <<>>), 0)
       IN  rows = h.rows /\ boards = h.boards
    /\ game_board = 0
    /\ last_move = <<>>
    /\ players = [c \in Color |-> AIPlayer]
    /\ last_score = [c \in Color |-> <<>>]
    /\ my_move = <<>>
    /\ board_for_my_turn = <<>>
    /\ game_thread = "running"
    /\ running = TRUE
    /\ quit_requested = FALSE
    /\ front_end = "playing"

\* board.clear()
ApiClear ==
    /\ rows' = clear(TheHeap, game_board).rows
    /\ boards' = clear(TheHeap, game_board).boards
    /\ UNCHANGED <<game_board, last_move, players, last_score>>
    /\ UNCHANGED tk_vars

\* board.score
ApiScore ==
    /\ boards' = score_cached(TheHeap, game_board).boards
    /\ UNCHANGED <<rows, game_board, last_move, players, last_score>>
    /\ UNCHANGED tk_vars

\* board = board.apply(move) for a move of board.valid_moves()
ApiApply ==
    /\ RefCount(game_value.grid, Tile_BLACK) + RefCount(game_value.grid, Tile_WHITE)
         < MaxApiStones
    /\ \E i \in 1 .. MaxApiBranch :
          /\ i <= Len(valid_moves(game_value))
          /\ StepApply(valid_moves(game_value)[i].color,
                       Answer(<<valid_moves(game_value)[i]>>,
                              last_score[valid_moves(game_value)[i].color]))
    /\ UNCHANGED tk_vars

NextApi == ApiClear \/ ApiScore \/ ApiApply

SpecApi == InitApi /\ [][NextApi]_vars

-----------------------------------------------------------------------------
(* Properties *)

\* the board of the state and the boards apply gives from it
Boards == {game_value} \cup Children(game_value)

FinishedIffTerminal(b) == finished(b) <=> RefTerminal(b.grid)

\* C1: on every board reached from the opening position by apply() of valid
\* moves, next_to_move is None (finished) if and only if neither color has a
\* legal non-skip move on the grid; so a full board is finished, and so is a
\* board on which both colors are blocked while empty cells remain.  Checked
\* on the board of every state and on every board apply gives from it.
C1_FinishedIffNoLegalMove ==
    /\ FinishedIffTerminal(game_value)
    /\ \A child \in Children(game_value) : FinishedIffTerminal(child)

\* C1 witness: a game has ended with both colors blocked and cells still empty
C1_BlockedWithEmptyCells ==
    /\ last_move # <<>>
    /\ finished(game_value)
    /\ \E c \in RefCells : game_value.grid[c[1]][c[2]] = Tile_EMPTY
    /\ RefTerminal(game_value.grid)

\* what apply(move) of board b in heap h returns, against the reference
ApplyMatchesReference(h, b, move) ==
    LET expected == RefApply(grid_of(h, b), Tile_for_color(move.color), <<move.x, move.y>>)
        after == apply(h, b, move, HeapBoards)
    IN  /\ grid_of(after, HeapBoards) = expected
        /\ after.boards[HeapBoards].next_to_move =
             IF RefTerminal(expected) THEN None ELSE Color_other(move.color)

\* C2: for every reachable board and every non-skip move of its valid_moves(),
\* apply(move) gives the reference result: the stone is on (x, y), in each of
\* the 8 directions the run of opponent stones next to (x, y) is flipped if
\* and only if it ends on a stone of the mover, every other cell is unchanged,
\* and next_to_move is the opponent unless the position is terminal.
C2_ApplyIsReferenceMove ==
    LET moves == valid_moves(game_value)
    IN  \A i \in 1 .. Len(moves) :
            is_skip(moves[i]) \/ ApplyMatchesReference(TheHeap, game_board, moves[i])

\* C2 witness: the last move flipped at least three stones and left alone a
\* run of opponent stones next to it that ended on no stone of the mover
C2_FlippedAndUnflippedRuns ==
    /\ last_move # <<>>
    /\ ~is_skip(last_move[1])
    /\ LET before == grid_of(TheHeap, Receiver)
           tile == Tile_for_color(last_move[1].color)
           c == <<last_move[1].x, last_move[1].y>>
       IN  /\ Cardinality(RefFlips(before, tile, c)) >= 3
           /\ \E d \in RefDirections : /\ RefTile(before, RefStep(c, d, 1)) = Tile_other(tile)
                                       /\ RefRun(before, tile, c, d) = {}
           /\ game_value.grid = RefApply(before, tile, c)

SeedingsGiveLegalCells(g, tile) ==
    /\ Destinations(valid_moves_seeded(g, tile, TRUE)) = RefLegal(g, tile)
    /\ Destinations(valid_moves_seeded(g, tile, FALSE)) = RefLegal(g, tile)

\* C3: for every reachable board and each color, move generation seeded from
\* the empty cells (rays that must end on a stone of the mover) and move
\* generation seeded from the stones of the mover (rays that must end on an
\* empty cell) give the same set of destination cells: the empty cells from
\* which at least one direction brackets one or more opponent stones.
C3_SeedingsAgreeOnDestinations ==
    /\ SeedingsGiveLegalCells(game_value.grid, Tile_BLACK)
    /\ SeedingsGiveLegalCells(game_value.grid, Tile_WHITE)

\* C3 witness: a board on which the two seedings give different sequences
\* (the one seeded from the stones names a destination more than once)
C3_SeedingsDifferAsSequences ==
    /\ last_move # <<>>
    /\ RefLegal(game_value.grid, Tile_BLACK) # {}
    /\ Len(valid_moves_seeded(game_value.grid, Tile_BLACK, FALSE))
         > Len(valid_moves_seeded(game_value.grid, Tile_BLACK, TRUE))

\* the locals of the root loop of _negamax(b, depth, None, None, color) after
\* the first k moves
RootLoop(b, depth, color, k) ==
    negamax_at("loop", b, depth, <<>>, color, sort_by_preference(valid_moves(b)), 1, k,
               LoopState(<<>>, <<>>, <<>>, FALSE))

\* the loop of the call _negamax makes for a move from a root loop whose alpha
\* is `alpha` hits its break
ChildCutsOff(child, depth, alpha, color) ==
    /\ ~finished(child)
    /\ valid_moves(child) # <<>>
    /\ negamax_at("loop", child, depth, neg(alpha), color,
                  sort_by_preference(valid_moves(child)), 1, Len(valid_moves(child)),
                  LoopState(<<>>, <<>>, <<>>, FALSE)).done

PruningChangesNothing(b, depth, color) ==
    /\ _negamax(b, depth, <<>>, <<>>, color) = RefNegamax(b, depth, color)
    /\ _negamax(b, depth, <<-1000>>, <<1000>>, color) = RefNegamax(b, depth, color)

\* C4: for any reachable board and any depth >= 1 (up to MaxDepth), the root
\* call of negamax with unbounded (alpha, beta), the root call with finite
\* bounds outside the score range (-1000 and 1000) and the exhaustive negamax
\* that never cuts off return the same score and the same move.
C4_PruningKeepsScoreAndMove ==
    \A depth \in 1 .. MaxDepth : \A color \in SearchColors(game_value) :
        PruningChangesNothing(game_value, depth, color)

\* C4 witness: in a search of depth 2 from the board of the state, the loop
\* of the call for the k-th root move hits its break
C4_SearchCutsOff ==
    /\ last_move # <<>>
    /\ ~finished(game_value)
    /\ LET b == game_value
           moves == sort_by_preference(valid_moves(b))
       IN  \E k \in 2 .. Len(moves) :
               ChildCutsOff(apply_value(b, moves[k]), 1,
                            RootLoop(b, 2, b.next_to_move, k - 1).alpha,
                            Color_other(b.next_to_move))

SeedingKeepsSearch(b, depth, color) ==
    _negamax(ForcedSeeding(b, TRUE), depth, <<>>, <<>>, color)
        = _negamax(ForcedSeeding(b, FALSE), depth, <<>>, <<>>, color)

\* C10: for every reachable board and depth (up to MaxDepth), negamax with
\* move generation forced to the seeding from the empty cells returns the
\* same score and the same move as negamax with move generation forced to the
\* seeding from the stones of the mover.
C10_SeedingKeepsScoreAndMove ==
    \A depth \in 1 .. MaxDepth : \A color \in SearchColors(game_value) :
        SeedingKeepsSearch(game_value, depth, color)

\* the board has next_to_move blocked while the opponent has a legal move
MoverMustSkip(b) ==
    /\ b.next_to_move \in Color
    /\ RefLegal(b.grid, Tile_for_color(b.next_to_move)) = {}
    /\ RefLegal(b.grid, Tile_for_color(Color_other(b.next_to_move))) # {}

SkipOnly(b) ==
    /\ valid_moves(b) = <<create_skip(b.next_to_move)>>
    /\ apply_value(b, create_skip(b.next_to_move)).grid = b.grid
    /\ apply_value(b, create_skip(b.next_to_move)).next_to_move = Color_other(b.next_to_move)

\* what apply(skip) of board object b returns: a board with the cells of b
SkipReturnsSameGrid(h, b) ==
    LET after == apply(h, b, create_skip(h.boards[b].next_to_move), HeapBoards)
    IN  /\ grid_of(after, HeapBoards) = grid_of(h, b)
        /\ after.boards[HeapBoards].next_to_move = Color_other(h.boards[b].next_to_move)

\* C5: on every reachable board where the color to move has no legal non-skip
\* move but the opponent has at least one, valid_moves() returns exactly one
\* element, the skip move of the mover, and apply(skip) returns a board whose
\* grid is cell for cell that of the original and whose next_to_move is the
\* opponent.
C5_BlockedMoverSkips ==
    /\ \A b \in Boards : MoverMustSkip(b) => SkipOnly(b)
    /\ MoverMustSkip(game_value) => SkipReturnsSameGrid(TheHeap, game_board)

\* C5 witness: the last move was a skip: the board it was applied to had the
\* mover blocked, and the board of the game has the same cells
C5_SkipWasApplied ==
    /\ last_move # <<>>
    /\ is_skip(last_move[1])
    /\ MoverMustSkip(value_of(TheHeap, Receiver))
    /\ game_value.grid = grid_of(TheHeap, Receiver)
    /\ game_value.next_to_move = Color_other(last_move[1].color)

\* the row objects of board object b
RowsOf(h, b) == {h.boards[b].tiles[x] : x \in Idx}

\* board object b of heap h is in heap k what it was: fields, rows and score
SameBoard(h, k, b) ==
    /\ k.boards[b] = h.boards[b]
    /\ \A r \in RowsOf(h, b) : k.rows[r] = h.rows[r]
    /\ value_of(k, b) = value_of(h, b)
    /\ score(k, b) = score(h, b)

\* apply(move) of board b leaves b what it was and returns a board on rows
\* of its own
ApplyIsPure(h, b, move) ==
    LET first == apply(h, b, move, HeapBoards)
    IN  /\ SameBoard(h, first, b)
        /\ RowsOf(first, b) \cap RowsOf(first, HeapBoards) = {}

\* after apply(move) of board b has returned a board, a second apply of b and
\* an apply of the board returned (by the first valid move of each) change no
\* board that was there before, and no two boards have a row object in common
LaterApplyIsPure(h, b, move) ==
    LET first == apply(h, b, move, HeapBoards)
        sibling == apply(first, b, valid_moves(value_of(h, b))[1], HeapBoards + 1)
        hasChild == valid_moves(value_of(first, HeapBoards)) # <<>>
        child == apply(first, HeapBoards, valid_moves(value_of(first, HeapBoards))[1],
                       HeapBoards + 1)
    IN  /\ SameBoard(first, sibling, b)
        /\ SameBoard(first, sibling, HeapBoards)
        /\ RowsOf(sibling, HeapBoards) \cap RowsOf(sibling, HeapBoards + 1) = {}
        /\ RowsOf(sibling, b) \cap RowsOf(sibling, HeapBoards + 1) = {}
        /\ hasChild =>
             /\ SameBoard(first, child, b)
             /\ SameBoard(first, child, HeapBoards)
             /\ RowsOf(child, HeapBoards) \cap RowsOf(child, HeapBoards + 1) = {}
             /\ RowsOf(child, b) \cap RowsOf(child, HeapBoards + 1) = {}

\* C6: apply(move) is a pure transformation: after an apply call the grid,
\* next_to_move and score of the receiver are what they were before it, and
\* the boards that different apply calls return (from the same parent or from
\* different parents) share no grid storage, so that a later apply on one of
\* them changes no cell of another.  Checked for every valid move of the
\* board of every state, for later calls after the last of these moves, and
\* for the board the last apply of the game was called on.
C6_ApplyIsPure ==
    /\ LET moves == valid_moves(game_value)
       IN  /\ \A i \in 1 .. Len(moves) : ApplyIsPure(TheHeap, game_board, moves[i])
           /\ moves # <<>> => LaterApplyIsPure(TheHeap, game_board, moves[Len(moves)])
    /\ last_move # <<>> =>
          /\ RowsOf(TheHeap, Receiver) \cap RowsOf(TheHeap, game_board) = {}
          /\ boards[Receiver].next_to_move = last_move[1].color

\* C6 witness: apply was called on a board whose score had been read; the
\* board still has its score and its cells, and the board returned has others
C6_ReceiverKeptAfterApply ==
    /\ last_move # <<>>
    /\ ~is_skip(last_move[1])
    /\ boards[Receiver].score # <<>>
    /\ boards[Receiver].next_to_move = last_move[1].color
    /\ get_tile(grid_of(TheHeap, Receiver), last_move[1].x, last_move[1].y) = Tile_EMPTY
    /\ get_tile(game_value.grid, last_move[1].x, last_move[1].y)
         = Tile_for_color(last_move[1].color)

\* C7: a freshly constructed and cleared board has the stones of the second
\* player (WHITE) on (3,3) and (4,4), those of the first player (BLACK) on
\* (3,4) and (4,3), the other 60 cells empty and the first player to move,
\* and valid_moves() returns exactly 4 moves.  The board of a game is fresh as
\* long as no move was made.
C7_OpeningPosition ==
    last_move = <<>> =>
        /\ \A c \in RefCells :
               game_value.grid[c[1]][c[2]] =
                   IF c \in {<<3, 3>>, <<4, 4>>} THEN Tile_WHITE
                   ELSE IF c \in {<<3, 4>>, <<4, 3>>} THEN Tile_BLACK
                   ELSE Tile_EMPTY
        /\ RefCount(game_value.grid, Tile_EMPTY) = 60
        /\ boards[game_board].empty_count = 60
        /\ game_value.next_to_move = Color_BLACK
        /\ Len(valid_moves(game_value)) = 4
        /\ \A i \in 1 .. Len(valid_moves(game_value)) : ~is_skip(valid_moves(game_value)[i])

\* C7 witness: the board of a game before its first move, with its four moves
C7_FreshBoard ==
    /\ last_move = <<>>
    /\ game_board = 0
    /\ RefCount(game_value.grid, Tile_BLACK) = 2
    /\ RefCount(game_value.grid, Tile_WHITE) = 2
    /\ Destinations(valid_moves(game_value)) = RefLegal(game_value.grid, Tile_BLACK)
    /\ Cardinality(RefLegal(game_value.grid, Tile_BLACK)) = 4

\* C8: for every reachable board, terminal or not, and each color c,
\* evaluate(board, c) = -evaluate(board, c.other); on a drawn terminal board
\* both are 0.
C8_EvaluateIsAntisymmetric ==
    \A b \in Boards : \A c \in Color :
        /\ _evaluate(b, c) = -_evaluate(b, Color_other(c))
        /\ (finished(b) /\ RefCount(b.grid, Tile_BLACK) = RefCount(b.grid, Tile_WHITE))
              => _evaluate(b, c) = 0

\* C8 witness: a game has ended in a draw
C8_DrawnGame ==
    /\ last_move # <<>>
    /\ finished(game_value)
    /\ RefCount(game_value.grid, Tile_BLACK) = RefCount(game_value.grid, Tile_WHITE)
    /\ _evaluate(game_value, Color_BLACK) = 0
    /\ _evaluate(game_value, Color_WHITE) = 0

\* C9: on every terminal board evaluate(board, color) is exactly 999 when
\* color has more stones, -999 when the other color has more and 0 when the
\* numbers are equal, never the sum of the weights; on every board that is
\* not terminal it is the sum of the weights at the stones of color minus the
\* sum of the weights at the stones of the opponent.
C9_EvaluateByStonesOrWeights ==
    \A b \in Boards : \A c \in Color :
        _evaluate(b, c) = IF finished(b) THEN RefTerminalScore(b.grid, c)
                          ELSE RefHeuristic(b.grid, c)

\* C9 witness: a game has ended on a board whose sum of weights is not the
\* value of evaluate
C9_TerminalNotWeightSum ==
    /\ last_move # <<>>
    /\ finished(game_value)
    /\ _evaluate(game_value, Color_BLACK) \in {999, -999}
    /\ RefHeuristic(game_value.grid, Color_BLACK) # _evaluate(game_value, Color_BLACK)

\* the non-skip moves on cells of the board that valid_moves() of b does not
\* hold: the cell is occupied, or empty with no opponent stone bracketed, or
\* the color is not the color to move
InvalidMoves(b) ==
    LET moves == valid_moves(b)
    IN  {move \in {Move(c, x, y) : c \in Color, x \in Idx, y \in Idx} :
            \A i \in 1 .. Len(moves) : moves[i] # move}

\* the cells on which grids g and k differ
ChangedCells(g, k) == {c \in RefCells : g[c[1]][c[2]] # k[c[1]][c[2]]}

\* the position `after` that apply(move) gave from b is inconsistent: a stone
\* was overwritten, or a stone was placed and nothing flipped, or the count of
\* the empty cells is not that of the grid
Inconsistent(b, move, after) ==
    \/ b.grid[move.x][move.y] # Tile_EMPTY
    \/ ChangedCells(b.grid, after.grid) \subseteq {<<move.x, move.y>>}
    \/ after.empty_count # RefCount(after.grid, Tile_EMPTY)

\* C11: on every reachable board, apply() of a non-skip move that is not in
\* valid_moves() ends in an error and never returns an inconsistent position
\* (an overwritten stone, a stone placed with no flip, or a count of empty
\* cells that differs from the grid).  Stated in its weakest form: the call
\* raises, or else the position it returns is not inconsistent.
C11_InvalidMoveRejected ==
    \A move \in InvalidMoves(game_value) :
        apply_raises(move) \/ ~Inconsistent(game_value, move, apply_value(game_value, move))

\* the call is a base case: no move is generated, and the result is the static
\* evaluation with no move
IsBaseCase(b, depth, color) ==
    /\ base_case(b, depth)
    /\ _negamax(b, depth, <<>>, <<>>, color) = NegamaxResult(_evaluate(b, color), <<>>)

\* C12: negamax called with any depth <= 0 (down to -MaxBelowZero), or with a
\* terminal board at any depth, is a base case: it returns
\* (evaluate(board, color), no move) and generates and applies no move.
C12_DegenerateInputIsBaseCase ==
    /\ \A depth \in (-MaxBelowZero) .. 0 : \A color \in Color :
           IsBaseCase(game_value, depth, color)
    /\ \A b \in Boards : \A depth \in (-MaxBelowZero) .. MaxDepth : \A color \in Color :
           finished(b) => IsBaseCase(b, depth, color)


\* the player to move answers with a move of valid_moves(), which step applies
StepCanBeTaken ==
    LET answer == next_move(players[game_value.next_to_move], game_value,
                            last_score[game_value.next_to_move])
        moves == valid_moves(game_value)
    IN  /\ answer.move # <<>>
        /\ \E i \in 1 .. Len(moves) : moves[i] = answer.move[1]

\* C13: Game.run, started from the opening position with two players that
\* each return an element of valid_moves(), always terminates: step() is only
\* called on a board that is not finished (the first call on the opening
\* board, a later call after step() returned true), and finished becomes true
\* after at most 60 non-skip moves, each of which fills an empty cell.
C13_RunTerminates ==
    /\ [](~finished(game_value) => StepCanBeTaken)
    /\ [](last_move = <<>> => ~finished(game_value))
    /\ [][game_board' # game_board => ~finished(game_value)]_vars
    /\ [](boards[game_board].empty_count = RefCount(game_value.grid, Tile_EMPTY))
    /\ [](NonSkipMoves \in 0 .. OpeningEmpty)
    /\ [](NonSkipMoves = OpeningEmpty => finished(game_value))
    /\ <>[]finished(game_value)

\* C13 witness: a game has run to a full board: 60 non-skip moves were made
\* and the game is finished
C13_FullBoard ==
    /\ last_move # <<>>
    /\ NonSkipMoves = OpeningEmpty
    /\ RefCount(game_value.grid, Tile_EMPTY) = 0
    /\ finished(game_value)


\* move is an element of valid_moves() of b and has the color to move
IsValidMove(b, move) ==
    LET moves == valid_moves(b)
    IN  /\ move.color = b.next_to_move
        /\ \E i \in 1 .. Len(moves) : moves[i] = move

\* C14: every move that Game.step passes to apply() is an element of
\* valid_moves() of that board and has the color of board.next_to_move,
\* whichever player gave it.  The NegaMaxPlayer (depth >= 1) and the base AI
\* answer with a move on every board that is not finished; last_click accepts
\* a click only if its move is in valid_moves() of the board the game thread
\* waits on; a wait that no accepted click has ended returns nothing, so the
\* move of an earlier turn, which stays in my_move, is not returned for a
\* later turn; and the move a woken wait returns is valid on the board of the
\* game.
C14_StepAppliesValidMove ==
    /\ [][game_board' # game_board =>
            /\ last_move' # <<>>
            /\ IsValidMove(game_value, last_move'[1])]_vars
    /\ []((game_thread = "running" /\ ~finished(game_value) /\ ~TkToMove) => StepCanBeTaken)
    /\ [][my_move' # my_move =>
            /\ game_thread \in {"waiting", "notified"}
            /\ board_for_my_turn = <<game_board>>
            /\ IsValidMove(game_value, my_move'[1])]_vars
    /\ [][game_thread = "waiting" => game_board' = game_board]_vars
    /\ [](game_thread = "notified" =>
            /\ board_for_my_turn = <<game_board>>
            /\ my_move # <<>>
            /\ IsValidMove(game_value, my_move[1]))

\* C14 witness: the game thread waits for a click in a later turn of the
\* TkPlayer while my_move still holds the move of an earlier turn, which is
\* not valid on the board of the game
C14_StaleMoveWhileWaiting ==
    /\ game_thread = "waiting"
    /\ board_for_my_turn = <<game_board>>
    /\ my_move # <<>>
    /\ ~IsValidMove(game_value, my_move[1])
    /\ last_move # <<>>
    /\ last_move[1].color = Color_other(TkColor)


\* the stones of color in a score
stones_of(sc, color) == IF color = Color_BLACK THEN sc.black_stones ELSE sc.white_stones

\* the score of b and the score of the board apply(move) gives differ as a
\* legal move asks: a non-skip move gives its color k + 1 stones and takes k
\* from the other color, k >= 1 (k = 1 if `opening`), which leaves one more
\* cell that is not empty; a skip changes no count
StonesChangeByMove(b, move, opening) ==
    LET before == compute_score(b.grid, b.next_to_move)
        after == compute_score(apply_value(b, move).grid, apply_value(b, move).next_to_move)
        k == stones_of(after, move.color) - stones_of(before, move.color) - 1
    IN  IF is_skip(move)
        THEN /\ after.black_stones = before.black_stones
             /\ after.white_stones = before.white_stones
        ELSE /\ k >= 1
             /\ opening => k = 1
             /\ opening => stones_of(after, move.color) = 4
             /\ opening => stones_of(after, Color_other(move.color)) = 1
             /\ stones_of(after, Color_other(move.color))
                  = stones_of(before, Color_other(move.color)) - k
             /\ after.black_stones + after.white_stones
                  = before.black_stones + before.white_stones + 1

\* C15: along every game from the opening position each legal non-skip move
\* flips at least one stone: the stones of the mover grow by k + 1 and those
\* of the opponent shrink by k for some k >= 1 (k = 1 for each of the four
\* opening moves, which give 4 stones to 1), so the number of cells that are
\* not empty grows by exactly 1 with a non-skip move, never shrinks, and is
\* unchanged by a skip.  Checked for every valid move of every board of a
\* game, and for the scores read before and after the move of every step.
C15_MoveFlipsAtLeastOne ==
    /\ LET moves == valid_moves(game_value)
       IN  \A i \in 1 .. Len(moves) :
               StonesChangeByMove(game_value, moves[i], last_move = <<>>)
    /\ last_move # <<>> =>
          LET before == score(TheHeap, Receiver)
              after == score(TheHeap, game_board)
          IN  after.black_stones + after.white_stones
                = before.black_stones + before.white_stones
                    + (IF is_skip(last_move[1]) THEN 0 ELSE 1)

\* C15 witness: the last move of the game flipped at least three stones
C15_ThreeFlipped ==
    /\ last_move # <<>>
    /\ ~is_skip(last_move[1])
    /\ stones_of(score(TheHeap, game_board), last_move[1].color)
         >= stones_of(score(TheHeap, Receiver), last_move[1].color) + 4
    /\ stones_of(score(TheHeap, game_board), Color_other(last_move[1].color))
         <= stones_of(score(TheHeap, Receiver), Color_other(last_move[1].color)) - 3


\* the opening position: the four centre stones, every other cell empty
OpeningGrid ==
    [x \in Idx |-> [y \in Idx |->
        IF <<x, y>> \in {<<3, 3>>, <<4, 4>>} THEN Tile_WHITE
        ELSE IF <<x, y>> \in {<<3, 4>>, <<4, 3>>} THEN Tile_BLACK
        ELSE Tile_EMPTY]]

\* board object b of heap h is in the opening position, the first player to move
IsOpening(h, b) ==
    /\ grid_of(h, b) = OpeningGrid
    /\ h.boards[b].next_to_move = Color_BLACK

\* C16: clear() called on any board (a fresh one, or one reached after moves,
\* a terminal one included) leaves it in the opening position: exactly the
\* four centre stones, every other cell empty, and the first player to move.
C16_ClearGivesOpening == IsOpening(clear(TheHeap, game_board), game_board)

\* C20: after any sequence of construction, clear(), reads of score and
\* apply() calls, the score read from a board is (the number of stones of the
\* first player in its grid, the number of stones of the second player in
\* its grid, its next_to_move): the cached value is never stale.
C20_ScoreIsNeverStale ==
    score(TheHeap, game_board)
        = Score(RefCount(game_value.grid, Tile_BLACK),
                RefCount(game_value.grid, Tile_WHITE),
                boards[game_board].next_to_move)


\* the empty cell that ends the run of opponent stones from the stone on c in
\* direction d, if there is one: a set of at most one cell
RefReach(g, tile, c, d) ==
    {RefStep(c, d, n + 1) : n \in {m \in 1 .. Size :
        /\ \A k \in 1 .. m : RefTile(g, RefStep(c, d, k)) = Tile_other(tile)
        /\ RefTile(g, RefStep(c, d, m + 1)) = Tile_EMPTY}}

\* the legal cells row by row, each once: what the seeding from the empty
\* cells lists
RefEmptySeeded(g, tile) ==
    LET cells == SelectSeq(AllCells, LAMBDA c : c \in RefLegal(g, tile))
    IN  [i \in 1 .. Len(cells) |-> Move(Tile_color(tile), cells[i][1], cells[i][2])]

\* the stones of `tile` row by row and for each the eight directions, in the
\* order of the neighbour offsets
RefRays ==
    [i \in 1 .. (Len(AllCells) * Len(NeighbourOffsets)) |->
        <<AllCells[((i - 1) \div Len(NeighbourOffsets)) + 1],
          NeighbourOffsets[((i - 1) % Len(NeighbourOffsets)) + 1]>>]

\* the empty cell at the end of each ray from a stone of `tile` that crosses
\* opponent stones, ray by ray: what the seeding from the stones lists
RefStoneSeeded(g, tile) ==
    LET rays == SelectSeq(RefRays, LAMBDA r : /\ g[r[1][1]][r[1][2]] = tile
                                              /\ RefReach(g, tile, r[1], r[2]) # {})
    IN  [i \in 1 .. Len(rays) |->
            LET e == CHOOSE c \in RefReach(g, tile, rays[i][1], rays[i][2]) : TRUE
            IN  Move(Tile_color(tile), e[1], e[2])]

\* the moves board b generates for `tile` are those of the seeding from the
\* empty cells if early_empty, and those of the seeding from the stones if not
GeneratedBy(b, tile, early_empty) ==
    _valid_moves_for(b.grid, b.empty_count, tile)
        = IF early_empty THEN RefEmptySeeded(b.grid, tile) ELSE RefStoneSeeded(b.grid, tile)

\* C17, as stated: on every reachable board valid_moves() seeds rays from
\* every empty cell (the seed cell recorded) when more than 50 empty cells
\* remain, and from the stones of the mover (the empty cell that ends the ray
\* recorded) when fewer remain.
C17_EmptySeededEarly ==
    \A tile \in {Tile_BLACK, Tile_WHITE} :
        GeneratedBy(game_value, tile, RefCount(game_value.grid, Tile_EMPTY) > SeedThreshold)

\* C17, amended: on every reachable board valid_moves() seeds rays from the
\* stones of the mover (the empty cell that ends each ray recorded, ray by
\* ray) while 50 or more empty cells remain, and from every empty cell (the
\* seed cell recorded once) when fewer than 50 remain.
C17_StoneSeededEarly ==
    \A tile \in {Tile_BLACK, Tile_WHITE} :
        GeneratedBy(game_value, tile, RefCount(game_value.grid, Tile_EMPTY) < SeedThreshold)

\* C17 witness: a board with fewer than 50 empty cells is reached on which the
\* two seedings list different sequences, and the moves generated are those
\* of the seeding from the empty cells
C17_LateBoardSeedingsDiffer ==
    /\ last_move # <<>>
    /\ RefCount(game_value.grid, Tile_EMPTY) < SeedThreshold
    /\ \E tile \in {Tile_BLACK, Tile_WHITE} :
          /\ RefEmptySeeded(game_value.grid, tile) # RefStoneSeeded(game_value.grid, tile)
          /\ _valid_moves_for(game_value.grid, game_value.empty_count, tile)
               = RefEmptySeeded(game_value.grid, tile)

\* the value of `move` on b in a search of `depth` levels in which no move is
\* left out: that of the board after it, to the opponent, negated
ExactValue(b, depth, move) ==
    -(RefNegamax(apply_value(b, move), depth - 1, Color_other(b.next_to_move)).score)

\* the positional weight of the destination of a move (a skip has no cell and
\* is the only move where it is valid)
MoveWeight(move) == IF is_skip(move) THEN 0 ELSE RefWeight(<<move.x, move.y>>)

\* moves[i] comes before moves[j] in the order "descending weight of the
\* destination, ties in the order of the enumeration"
ComesBefore(moves, i, j) ==
    \/ MoveWeight(moves[i]) > MoveWeight(moves[j])
    \/ MoveWeight(moves[i]) = MoveWeight(moves[j]) /\ i < j

\* the indices of the moves whose value is the greatest of the values
Maximal(values) ==
    {i \in DOMAIN values : \A j \in DOMAIN values : values[i] >= values[j]}

\* the index of the first move, in the order of ComesBefore, among those of
\* the greatest value: a set of one index
FirstMaximal(moves, values) ==
    {i \in Maximal(values) :
        \A j \in Maximal(values) \ {i} : ComesBefore(moves, i, j)}

\* the root call on b returns the first of the moves of the greatest value
ReturnsFirstMaximal(b, depth) ==
    LET moves == valid_moves(b)
        values == [i \in 1 .. Len(moves) |-> ExactValue(b, depth, moves[i])] \o <<>>
    IN  /\ Cardinality(FirstMaximal(moves, values)) = 1
        /\ \A i \in FirstMaximal(moves, values) :
              NegaMax_search(b, depth).move = <<moves[i]>>

\* C18: on every reachable non-terminal board and for every depth >= 1 (up to
\* MaxDepth) the move returned by the root call of negamax with unbounded
\* alpha and beta is the first move, in the order "descending weight of the
\* destination, ties in valid_moves() order", whose exact unpruned value is
\* the maximum over the legal moves; a later move of equal value does not
\* replace it.
C18_FirstBestMoveIsKept ==
    ~finished(game_value) =>
        \A depth \in 1 .. MaxDepth : ReturnsFirstMaximal(game_value, depth)

\* C18 witness: a board reached by a move of the game on which two moves to
\* different cells have the greatest value and the root call returns the one
\* that comes first
C18_TiedBestMoves ==
    /\ last_move # <<>>
    /\ ~finished(game_value)
    /\ \E depth \in 1 .. MaxDepth :
          LET b == game_value
              moves == valid_moves(b)
              values == [i \in 1 .. Len(moves) |-> ExactValue(b, depth, moves[i])] \o <<>>
          IN  \E i \in FirstMaximal(moves, values) : \E j \in Maximal(values) :
                  /\ moves[j] # moves[i]
                  /\ ComesBefore(moves, i, j)
                  /\ NegaMax_search(b, depth).move = <<moves[i]>>

\* the scores of a sequence of results
ScoresOf(results) == {results[i].score : i \in DOMAIN results}

\* the greatest of a non-empty set of scores
GreatestOf(scores) == CHOOSE v \in scores : \A w \in scores : v >= w

\* score_moves of a player of depth d pairs each valid move of b, in the order
\* of valid_moves(), with the negated score of the unbounded search of the
\* board after it for the opponent
ScoresEachMoveInOrder(b, d) ==
    LET moves == valid_moves(b)
        results == score_moves(b, d)
    IN  /\ Len(results) = Len(moves)
        /\ \A i \in 1 .. Len(moves) :
              /\ results[i].move = <<moves[i]>>
              /\ results[i].score
                   = -(_negamax(apply_value(b, moves[i]), d, <<>>, <<>>,
                                Color_other(b.next_to_move)).score)

\* the greatest score of score_moves for depth d is the score next_move of a
\* player of depth d + 1 records as its _last_score
GreatestIsNextDepthScore(b, d) ==
    NegaMax_next_move(NegaMax_search(b, d + 1)).last_score
        = <<GreatestOf(ScoresOf(score_moves(b, d)))>>

\* C19: on every reachable non-terminal board and for every depth d with
\* 0 <= d < MaxDepth, score_moves() returns, in valid_moves() order, one
\* (score, move) pair per move of valid_moves(), the score being the negated
\* score of negamax(apply(move), d, unbounded, unbounded, opponent); and the
\* maximum of these scores is the score next_move() records for an engine of
\* depth d + 1 on the same board.
C19_ScoreMovesMatchesNextMove ==
    ~finished(game_value) =>
        \A d \in 0 .. (MaxDepth - 1) :
            /\ ScoresEachMoveInOrder(game_value, d)
            /\ GreatestIsNextDepthScore(game_value, d)

\* C19 witness: a board reached by a move of the game with several valid
\* moves whose scores differ, the greatest not at the first move, and that
\* greatest score is the one next_move records one level deeper
C19_BestScoreNotFirst ==
    /\ last_move # <<>>
    /\ ~finished(game_value)
    /\ \E d \in 0 .. (MaxDepth - 1) :
          LET results == score_moves(game_value, d)
          IN  /\ Len(results) >= 2
              /\ results[1].score < GreatestOf(ScoresOf(results))
              /\ GreatestIsNextDepthScore(game_value, d)

\* the non-skip moves of a sequence of moves
NonSkip(moves) == SelectSeq(moves, LAMBDA move : ~is_skip(move))

\* no two elements of moves name the same cell
NoCellTwice(moves) ==
    \A i, j \in 1 .. Len(moves) :
        i # j => <<moves[i].x, moves[i].y>> # <<moves[j].x, moves[j].y>>

\* every non-skip element of valid_moves() of b names a cell of the board
\* that is empty on b and carries the color to move
MovesAreWellFormed(b) ==
    \A i \in 1 .. Len(NonSkip(valid_moves(b))) :
        LET move == NonSkip(valid_moves(b))[i]
        IN  /\ move.x \in Idx /\ move.y \in Idx
            /\ RefTile(b.grid, <<move.x, move.y>>) = Tile_EMPTY
            /\ move.color = b.next_to_move

\* valid_moves() of b lists the legal destination cells of the color to move
ListsTheLegalCells(b) ==
    Destinations(NonSkip(valid_moves(b)))
        = RefLegal(b.grid, Tile_for_color(b.next_to_move))

\* score_moves() has as many entries as there are legal destination cells
\* (a blocked mover has the one entry of the skip)
OneScorePerDestination(b) ==
    Len(score_moves(b, 0))
        = IF MoverMustSkip(b) THEN 1
          ELSE Cardinality(RefLegal(b.grid, Tile_for_color(b.next_to_move)))

\* C21: on every reachable board that is not finished, valid_moves() lists
\* each legal destination cell exactly once: no two elements name the same
\* (x, y), every non-skip element has 0 <= x, y <= 7, names a cell that is
\* empty on the board and carries the color to move; and score_moves() has
\* exactly one entry per legal destination.
C21_EachDestinationOnce ==
    ~finished(game_value) =>
        /\ NoCellTwice(valid_moves(game_value))
        /\ MovesAreWellFormed(game_value)
        /\ ListsTheLegalCells(game_value)
        /\ OneScorePerDestination(game_value)

\* on every board that is not finished the elements of valid_moves() are well
\* formed and their cells are the legal destination cells
WellFormedLegalCells ==
    ~finished(game_value) =>
        /\ MovesAreWellFormed(game_value)
        /\ ListsTheLegalCells(game_value)

\* the move that gave the board of the game was a skip
SkipWasLast == last_move # <<>> /\ is_skip(last_move[1])

\* on board b the color to move has a legal move that is not a skip
MoverCanPlace(b) ==
    /\ ~finished(b)
    /\ RefLegal(b.grid, Tile_for_color(b.next_to_move)) # {}
    /\ valid_moves(b) # <<>>
    /\ \A i \in 1 .. Len(valid_moves(b)) : ~is_skip(valid_moves(b)[i])

\* C22: in every game from the opening position a skip is never followed by
\* a skip: the board apply(skip) returns is not finished and its color to
\* move has at least one legal move that is not a skip, and the move of the
\* step after a skip is not a skip.
C22_SkipIsNotFollowedBySkip ==
    /\ [](SkipWasLast => MoverCanPlace(game_value))
    /\ [][SkipWasLast /\ game_board' # game_board => ~is_skip(last_move'[1])]_vars

\* C22 witness: a skip was the last move of the game, made by a color with no
\* legal cell, and the color now to move, its opponent, has a legal cell
C22_OpponentMovesAfterSkip ==
    /\ SkipWasLast
    /\ RefLegal(game_value.grid, Tile_for_color(last_move[1].color)) = {}
    /\ game_value.next_to_move = Color_other(last_move[1].color)
    /\ RefLegal(game_value.grid, Tile_for_color(game_value.next_to_move)) # {}

\* C23: whenever the front end stops a game, by _reset or by cleanup, the
\* worker thread of that game eventually leaves Game.run, under every
\* interleaving of the thread with the handlers of the view.
C23_StoppedGameThreadLeaves == (~running) ~> (game_thread = "left")


====
